---- MODULE Spec2Model ----
(***************************************************************************)
(* Model of torchsupport's chunked distributor                             *)
(* (torchsupport/modules/structured/parallel.py), of its neighbourhood     *)
(* aggregation layer (torchsupport/structured/modules/basic.py), of the    *)
(* constructors of its weight wrappers (torchsupport/modules/weights.py)   *)
(* and of its pairwise distance matrices (torchsupport/ops/distance.py).   *)
(*                                                                         *)
(* Python values are records with a `kind` field.  A tensor is a sequence  *)
(* of rows along dim 0; in the distributor a row is an opaque row id, so   *)
(* that a lost, duplicated or reordered row is visible.                    *)
(***************************************************************************)
EXTENDS Integers, Sequences, FiniteSets, TLC

VARIABLES call, ret

vars == <<call, ret>>

(***************************************************************************)
(* Bounds of the model.                                                    *)
(***************************************************************************)
MaxDevices == 3
MaxGraphs == 3
MaxLen == 4
MaxRows == 4
MaxNodes == 2
MaxNeighbours == 2
MaxEdges == 2

(***************************************************************************)
(* Python helpers.                                                         *)
(***************************************************************************)
Min(a, b) == IF a < b THEN a ELSE b

Max(a, b) == IF a < b THEN b ELSE a

\* s[a:b] for 0 <= a, 0 <= b: indices are clamped to the length.
Slice(s, a, b) == SubSeq(s, Min(a, Len(s)) + 1, Min(b, Len(s)))

RECURSIVE SumSeq(_)
SumSeq(s) == IF s = <<>> THEN 0 ELSE Head(s) + SumSeq(Tail(s))

RECURSIVE Concat(_)
Concat(ss) == IF ss = <<>> THEN <<>> ELSE Head(ss) \o Concat(Tail(ss))

\* range(n) as the sequence <<0, ..., n-1>>
Range(n) == [i \in 1..n |-> i - 1]

(***************************************************************************)
(* Values.                                                                 *)
(***************************************************************************)
CPU == -1

Tensor(rows, device) == [kind |-> "Tensor", rows |-> rows, device |-> device]

\* torchsupport.modules.structured.packedtensor.PackedTensor: a tensor
\* subclass carrying the per-graph lengths in `index`.
PackedTensor(chunk) ==
  [kind |-> "PackedTensor", rows |-> chunk.rows, device |-> chunk.device,
   index |-> <<>>]

WithIndex(the_tensor, index) == [the_tensor EXCEPT !.index = index]

Object(ref) == [kind |-> "object", ref |-> ref]

Tuple(items) == [kind |-> "tuple", items |-> items]

List(items) == [kind |-> "list", items |-> items]

\* a dict is the ordered sequence of its (key, value) items
Dict(items) == [kind |-> "dict", items |-> items]

Item(key, value) == Tuple(<<Object(key), value>>)

Ok(out) == [ok |-> TRUE, out |-> out, error |-> "", message |-> <<>>]

Raise(error, message) ==
  [ok |-> FALSE, out |-> <<>>, error |-> error, message |-> message]

NoReturn == [ok |-> FALSE, out |-> <<>>, error |-> "pending", message |-> <<>>]

(***************************************************************************)
(* torch.nn.parallel Scatter.apply(target_gpus, chunk_sizes, dim, input)   *)
(* along dim 0.                                                            *)
(***************************************************************************)
RECURSIVE SplitWithSizes(_, _)
SplitWithSizes(rows, sizes) ==
  IF sizes = <<>> THEN <<>>
  ELSE <<SubSeq(rows, 1, Head(sizes))>>
         \o SplitWithSizes(SubSeq(rows, Head(sizes) + 1, Len(rows)), Tail(sizes))

\* a split into pieces that each run one row into the next
TorchChunkOverlapping(rows, chunks) ==
  LET n == Len(rows)
      split_size == (n + chunks - 1) \div chunks
      count == IF n = 0 THEN chunks ELSE (n + split_size - 1) \div split_size
  IN [d \in 1..count |->
        SubSeq(rows, (d - 1) * split_size + 1, Min(d * split_size + 1, n))]

\* tensor.chunk(chunks): pieces of ceil(n / chunks) rows, the last one
\* shorter, and fewer than `chunks` pieces when the rows run out.
TorchChunk(rows, chunks) ==
  LET n == Len(rows)
      split_size == (n + chunks - 1) \div chunks
      count == IF n = 0 THEN chunks ELSE (n + split_size - 1) \div split_size
  IN [d \in 1..count |->
        SubSeq(rows, (d - 1) * split_size + 1, Min(d * split_size, n))]

\* chunk_sizes=None
None == <<>>

\* a split by sizes that does not compare their sum with the row count
ScatterApplyUnchecked(target_gpus, chunk_sizes, tensor) ==
  LET pieces == IF chunk_sizes = None
                THEN TorchChunk(tensor.rows, Len(target_gpus))
                ELSE SplitWithSizes(tensor.rows, chunk_sizes)
  IN Ok([d \in 1..Len(pieces) |-> Tensor(pieces[d], target_gpus[d])])

ScatterApply(target_gpus, chunk_sizes, tensor) ==
  IF chunk_sizes = None
  THEN LET pieces == TorchChunk(tensor.rows, Len(target_gpus))
       IN Ok([d \in 1..Len(pieces) |-> Tensor(pieces[d], target_gpus[d])])
  ELSE IF SumSeq(chunk_sizes) # Len(tensor.rows)
  THEN Raise("RuntimeError", <<"split_with_sizes">>)
  ELSE LET pieces == SplitWithSizes(tensor.rows, chunk_sizes)
       IN Ok([d \in 1..Len(pieces) |-> Tensor(pieces[d], target_gpus[d])])

(***************************************************************************)
(* parallel.py                                                             *)
(***************************************************************************)
\* a block that leaves out its last graph
chunk_sizes_short(lengths, num_targets) ==
  LET num_entities == Len(lengths)
      chops == num_entities \div num_targets
  IN [d \in 1..num_targets |->
        SumSeq(Slice(lengths, (d - 1) * chops, d * chops - 1))]

\* blocks of ceil(G / N) graphs
chunk_sizes_ceil(lengths, num_targets) ==
  LET num_entities == Len(lengths)
      chops == (num_entities + num_targets - 1) \div num_targets
  IN [d \in 1..num_targets |->
        SumSeq(Slice(lengths, (d - 1) * chops, d * chops))]

chunk_sizes(lengths, num_targets) ==
  LET num_entities == Len(lengths)
      chops == num_entities \div num_targets
  IN [d \in 1..num_targets |->
        SumSeq(Slice(lengths, (d - 1) * chops, d * chops))]

chunk_tensor(tensor, lengths, targets) == ScatterApply(targets, lengths, tensor)

\* the body of `for chunk in chunks`: `offset` is read, never advanced
NextOffset(offset, step) == offset

\* a store that goes through `tensor`, the source, instead
StoreIndexInSource(tensor, the_tensor, index) ==
  [tensor |-> WithIndex(tensor, index), the_tensor |-> the_tensor]

\* the_tensor.index = index: `the_tensor` names the PackedTensor made from
\* the chunk, another object than the source `tensor`; both objects after
\* the store
StoreIndex(tensor, the_tensor, index) ==
  [tensor |-> tensor, the_tensor |-> WithIndex(the_tensor, index)]

\* the loop over the chunks: the list `result` it fills, and the source
\* `tensor` as the loop leaves it
RECURSIVE ChunkLoop(_, _, _, _)
ChunkLoop(chunks, tensor, offset, step) ==
  IF chunks = <<>> THEN [result |-> <<>>, tensor |-> tensor]
  ELSE LET stored == StoreIndex(tensor, PackedTensor(Head(chunks)),
                                Slice(tensor.index, offset, offset + step))
           rest == ChunkLoop(Tail(chunks), stored.tensor,
                             NextOffset(offset, step), step)
       IN [result |-> <<stored.the_tensor>> \o rest.result,
           tensor |-> rest.tensor]

\* one call of chunk_packed_tensor: what it returns or raises, and the source
\* tensor after it
chunk_packed_tensor_call(tensor, targets) ==
  LET sizes == chunk_sizes(tensor.index, Len(targets))
      chunks == chunk_tensor(tensor, sizes, targets)
      step == Len(tensor.index) \div Len(targets)
      loop == ChunkLoop(chunks.out, tensor, 0, step)
  IN IF ~chunks.ok THEN [ret |-> chunks, tensor |-> tensor]
     ELSE [ret |-> Ok(loop.result), tensor |-> loop.tensor]

chunk_packed_tensor(tensor, targets) ==
  chunk_packed_tensor_call(tensor, targets).ret

\* A Chunkable: `base` is the value seen through its other classes (a
\* Chunkable may also be a tensor, a packed tensor, a tuple, a list or a
\* dict) and `own` names its chunk method: "own" for a subclass that defines
\* chunk(self, target_gpus, dim), "abstract" for one that keeps
\* Chunkable.chunk(self, obj).
Chunkable(base, own) == [kind |-> "Chunkable", base |-> base, own |-> own]

\* the value as its built-in classes see it
Data(obj) == IF obj.kind = "Chunkable" THEN obj.base ELSE obj

Classes(obj) ==
  CASE obj.kind = "Chunkable" ->
         {"Chunkable"}
           \cup (IF obj.base.kind = "PackedTensor"
                 THEN {"PackedTensor", "Tensor"} ELSE {obj.base.kind})
    [] obj.kind = "PackedTensor" -> {"PackedTensor", "Tensor"}
    [] OTHER -> {obj.kind}

isinstance(obj, class) == class \in Classes(obj)

len(obj) == Len(Data(obj).items)

\* the result of a subclass's chunk(target_gpus, dim): user code, recorded
\* by the arguments it was called with
OwnChunk(obj, target_gpus, dim, d) ==
  [kind |-> "own_chunk", of |-> obj.own, devices |-> target_gpus,
   dim |-> dim, part |-> d]

\* obj.chunk(target_gpus, dim); Chunkable.chunk itself takes one argument
ChunkableChunk(obj, target_gpus, dim) ==
  IF obj.own = "abstract"
  THEN Raise("TypeError", <<"chunk()", "takes", "2", "positional",
                            "arguments", "but", "3", "were", "given">>)
  ELSE Ok([d \in 1..Len(target_gpus) |-> OwnChunk(obj, target_gpus, dim, d)])

\* zip(*lists): as many entries as the shortest list has
RECURSIVE ZipLen(_)
ZipLen(lists) ==
  IF lists = <<>> THEN 0
  ELSE IF Len(lists) = 1 THEN Len(lists[1])
  ELSE Min(Len(Head(lists)), ZipLen(Tail(lists)))

\* a regrouping that hands every device the first chunk of each field
ZipFirst(lists) ==
  [d \in 1..ZipLen(lists) |-> [i \in DOMAIN lists |-> lists[i][1]]]

Zip(lists) ==
  [d \in 1..ZipLen(lists) |-> [i \in DOMAIN lists |-> lists[i][d]]]

FirstError(results) ==
  results[CHOOSE i \in DOMAIN results :
            /\ ~results[i].ok
            /\ \A j \in 1..(i - 1) : results[j].ok]

\* a replication that returns the value once
ReplicateOnce(obj, target_gpus) == <<obj>>

\* [obj for targets in target_gpus]: the value itself, once per device
Replicate(obj, target_gpus) == [d \in 1..Len(target_gpus) |-> obj]

\* a dispatch that tries the built-in classes before Chunkable
scatter_map_rule_builtin_first(obj) ==
  IF isinstance(obj, "PackedTensor") THEN "PackedTensor"
  ELSE IF isinstance(obj, "Tensor") THEN "Tensor"
  ELSE IF isinstance(obj, "tuple") /\ len(obj) > 0 THEN "tuple"
  ELSE IF isinstance(obj, "list") /\ len(obj) > 0 THEN "list"
  ELSE IF isinstance(obj, "dict") /\ len(obj) > 0 THEN "dict"
  ELSE IF isinstance(obj, "Chunkable") THEN "Chunkable"
  ELSE "other"

\* the rule scatter_map applies: the first `if` whose test holds
scatter_map_rule(obj) ==
  IF isinstance(obj, "Chunkable") THEN "Chunkable"
  ELSE IF isinstance(obj, "PackedTensor") THEN "PackedTensor"
  ELSE IF isinstance(obj, "Tensor") THEN "Tensor"
  ELSE IF isinstance(obj, "tuple") /\ len(obj) > 0 THEN "tuple"
  ELSE IF isinstance(obj, "list") /\ len(obj) > 0 THEN "list"
  ELSE IF isinstance(obj, "dict") /\ len(obj) > 0 THEN "dict"
  ELSE "other"

RECURSIVE scatter_map(_, _, _)
scatter_map(obj, target_gpus, dim) ==
  LET mapped(items) ==
        [i \in DOMAIN items |-> scatter_map(items[i], target_gpus, dim)]
      regroup(items, type(_)) ==
        LET results == mapped(items)
        IN IF \E i \in DOMAIN results : ~results[i].ok
           THEN FirstError(results)
           ELSE LET zipped == Zip([i \in DOMAIN results |-> results[i].out])
                IN Ok([d \in DOMAIN zipped |-> type(zipped[d])])
      rule == scatter_map_rule(obj)
  IN CASE rule = "Chunkable" -> ChunkableChunk(obj, target_gpus, dim)
       [] rule = "PackedTensor" -> chunk_packed_tensor(Data(obj), target_gpus)
       [] rule = "Tensor" -> ScatterApply(target_gpus, None, Data(obj))
       [] rule = "tuple" -> regroup(Data(obj).items, Tuple)
       [] rule = "list" -> regroup(Data(obj).items, List)
       [] rule = "dict" -> regroup(Data(obj).items, Dict)
       [] OTHER -> Ok(Replicate(obj, target_gpus))

\* the argument of scatter_map after the call: scatter_map assigns to no
\* object itself; the fields of a tuple, list or dict are mapped in order up
\* to the first one that raises
RECURSIVE scatter_map_source(_, _, _)
scatter_map_source(obj, target_gpus, dim) ==
  LET rule == scatter_map_rule(obj)
      as(data) == IF obj.kind = "Chunkable" THEN [obj EXCEPT !.base = data]
                  ELSE data
      items == Data(obj).items
      reached(i) == \A j \in 1..(i - 1) : scatter_map(items[j], target_gpus, dim).ok
  IN IF rule = "PackedTensor"
     THEN as(chunk_packed_tensor_call(Data(obj), target_gpus).tensor)
     ELSE IF rule \in {"tuple", "list", "dict"}
     THEN as([Data(obj) EXCEPT !.items =
                [i \in DOMAIN items |->
                   IF reached(i)
                   THEN scatter_map_source(items[i], target_gpus, dim)
                   ELSE items[i]]])
     ELSE obj

scatter_chunked(inputs, target_gpus, dim) == scatter_map(inputs, target_gpus, dim)


\* truth value of a tuple or dict: non-empty
Truthy(obj) == Len(obj.items) > 0

\* an extension that stops one placeholder early
ExtendShort(list, placeholder, count) ==
  list \o [i \in 1..(count - 1) |-> placeholder]

\* list.extend([placeholder for _ in range(count)])
Extend(list, placeholder, count) == list \o [i \in 1..count |-> placeholder]

scatter_chunked_kwargs(inputs, kwargs, target_gpus, dim) ==
  LET inputs1 == IF Truthy(inputs)
                 THEN scatter_chunked(inputs, target_gpus, dim) ELSE Ok(<<>>)
      kwargs1 == IF Truthy(kwargs)
                 THEN scatter_chunked(kwargs, target_gpus, dim) ELSE Ok(<<>>)
  IN IF ~inputs1.ok THEN inputs1
     ELSE IF ~kwargs1.ok THEN kwargs1
     ELSE LET i == inputs1.out
              k == kwargs1.out
              inputs2 == IF Len(i) < Len(k)
                         THEN Extend(i, Tuple(<<>>), Len(k) - Len(i)) ELSE i
              kwargs2 == IF Len(i) < Len(k) THEN k
                         ELSE IF Len(k) < Len(i)
                         THEN Extend(k, Dict(<<>>), Len(i) - Len(k)) ELSE k
          IN Ok([inputs |-> inputs2, kwargs |-> kwargs2])

\* the caller's `inputs` and `kwargs` after scatter_chunked_kwargs: lines
\* 68 and 69 rebind the two names to lists the call made, which is what
\* extend then grows; kwargs is not scattered when scattering inputs raised
scatter_chunked_kwargs_source(args) ==
  LET scattered(obj) ==
        IF Truthy(obj)
        THEN scatter_map_source(obj, args.target_gpus, args.dim) ELSE obj
      inputs_ok ==
        ~Truthy(args.inputs)
          \/ scatter_chunked(args.inputs, args.target_gpus, args.dim).ok
  IN [args EXCEPT !.inputs = scattered(args.inputs),
                  !.kwargs = IF inputs_ok THEN scattered(args.kwargs)
                             ELSE args.kwargs]

(***************************************************************************)
(* torchsupport/modules/weights.py: the constructors of the wrappers.      *)
(* A layer is its class, the torch.nn classes it is an instance of, and    *)
(* its `weight` and `bias` attributes: "absent" when the layer has no such *)
(* attribute, "None" for a bias switched off, else how the tensor was last *)
(* filled.                                                                 *)
(***************************************************************************)
Module(class, bases, weight, bias) ==
  [kind |-> "module", class |-> class, bases |-> bases,
   weight |-> weight, bias |-> bias]

\* getattr on a torch.nn.Module
AttributeError(name) ==
  Raise("AttributeError", <<"object", "has", "no", "attribute", name>>)

\* LREqualization.__init__: the wrapper built, or the exception, and the
\* wrapped layer afterwards
LREqualization_init(module, gain, lr_scale) ==
  IF module.weight = "absent"
  THEN [ret |-> AttributeError("weight"), module |-> module]
  ELSE IF module.bias = "absent"
  THEN [ret |-> AttributeError("bias"), module |-> module]
  ELSE IF module.weight = "None"
  THEN [ret |-> AttributeError("normal_"), module |-> module]
  ELSE LET normal == [module EXCEPT !.weight = "normal_"]
       IN IF module.bias = "None"
          THEN [ret |-> AttributeError("zero_"), module |-> normal]
          ELSE LET zeroed == [normal EXCEPT !.bias = "zero_"]
               IN [ret |-> Ok([lr_scale |-> lr_scale, module |-> zeroed,
                               gain |-> gain, weight |-> zeroed.weight,
                               bias |-> zeroed.bias]),
                   module |-> zeroed]

WeightDemodulation_init(module, gain, lr_scale, epsilon) ==
  LET base == LREqualization_init(module, gain, lr_scale)
      conv_names == <<"stride", "kernel_size", "dilation", "padding">>
      self(func, kwargs) ==
        [lr_scale |-> lr_scale, module |-> base.module, gain |-> gain,
         weight |-> base.module.weight, bias |-> base.module.bias,
         epsilon |-> epsilon, func |-> func, kwargs |-> kwargs]
  IN IF ~base.ret.ok THEN base
     ELSE IF "Linear" \in module.bases
     THEN [base EXCEPT !.ret.out = self("dynamic_linear", <<>>)]
     ELSE IF "Conv1d" \in module.bases
     THEN [base EXCEPT !.ret.out = self("dynamic_conv1d", conv_names)]
     ELSE IF "Conv2d" \in module.bases
     THEN [base EXCEPT !.ret.out = self("dynamic_conv2d", conv_names)]
     ELSE IF "Conv3d" \in module.bases
     THEN [base EXCEPT !.ret.out = self("dynamic_conv3d", conv_names)]
     ELSE [base EXCEPT !.ret =
             Raise("NotImplementedError",
                   <<"Weight", "demodulation", "is", "only", "implemented",
                     "for", "Linear", "and", "Conv", "layers.">>)]

\* torch.nn layers: the four recognized kinds with and without a bias, a
\* subclass of Linear, and layers of other kinds
Layers ==
  {Module(c, {c}, "trained", b) :
     c \in {"Linear", "Conv1d", "Conv2d", "Conv3d"}, b \in {"trained", "None"}}
    \cup {Module("LazyLinear", {"LazyLinear", "Linear"}, "trained", "trained"),
          Module("ReLU", {"ReLU"}, "absent", "absent"),
          Module("Sequential", {"Sequential"}, "absent", "absent"),
          Module("Embedding", {"Embedding"}, "trained", "absent"),
          Module("BatchNorm1d", {"BatchNorm1d"}, "trained", "trained"),
          Module("BatchNorm1d", {"BatchNorm1d"}, "None", "None"),
          Module("ConvTranspose2d", {"ConvTranspose2d"}, "trained", "trained"),
          Module("ConvTranspose2d", {"ConvTranspose2d"}, "trained", "None"),
          Module("Bilinear", {"Bilinear"}, "trained", "trained")}

(***************************************************************************)
(* Batches handed to the distributor.                                      *)
(***************************************************************************)
Devices(n) == Range(n)

DeviceLists == {Devices(n) : n \in 1..MaxDevices}

SeqsUpTo(S, n) == UNION {[1..k -> S] : k \in 0..n}

\* a well-formed packed ragged tensor: sum(index) rows, numbered in order
Packed(index) ==
  WithIndex(PackedTensor(Tensor(Range(SumSeq(index)), CPU)), index)

PackedInputs == {Packed(index) : index \in SeqsUpTo(0..MaxLen, MaxGraphs)}

Leaves ==
  {Packed(index) : index \in SeqsUpTo(1..2, 2)}
    \cup {Tensor(Range(n), CPU) : n \in 1..MaxRows}
    \cup {Object("cfg"), Tuple(<<>>), List(<<>>), Dict(<<>>)}
    \cup {Chunkable(Object("own"), "own")}

Fields == UNION {[1..k -> Leaves] : k \in 1..2}

Keys == <<"a", "b">>

DictOf(fields) == Dict([i \in DOMAIN fields |-> Item(Keys[i], fields[i])])

Containers ==
  {Tuple(f) : f \in Fields} \cup {List(f) : f \in Fields}
    \cup {DictOf(f) : f \in Fields}

\* self-chunking values of every other class, and one that keeps the
\* abstract chunk
Chunkables ==
  {Chunkable(base, "own") :
     base \in {Object("own"), Tensor(Range(2), CPU), Packed(<<1, 1>>),
               Tuple(<<Tensor(Range(2), CPU)>>),
               List(<<Tensor(Range(2), CPU)>>),
               DictOf(<<Tensor(Range(2), CPU)>>), List(<<>>)}}
    \cup {Chunkable(Object("own"), "abstract")}

Nested ==
  {Tuple(<<c, x>>) : c \in {Tuple(<<y>>) : y \in Leaves}, x \in Leaves}
    \cup {DictOf(<<List(<<y>>)>>) : y \in Leaves}
    \cup {Tuple(<<c, Tensor(Range(2), CPU)>>) : c \in Chunkables}

Batches == Leaves \cup Chunkables \cup Containers \cup Nested

\* the positional and named arguments of one module call
Positionals ==
  {Tuple(<<>>)} \cup {Tuple(f) : f \in [1..1 -> Leaves]}
    \cup {Tuple(<<x, Object("cfg")>>) : x \in Leaves}

Nameds == {Dict(<<>>)} \cup {DictOf(f) : f \in [1..1 -> Leaves]}

Calls ==
  [op : {"chunk_sizes"}, lengths : SeqsUpTo(0..MaxLen, MaxGraphs),
   num_targets : 1..MaxDevices]
    \cup [op : {"chunk_packed_tensor"}, tensor : PackedInputs,
          targets : DeviceLists]
    \cup [op : {"WeightDemodulation"}, module : Layers, gain : {2},
          lr_scale : {1}, epsilon : {0}]
    \cup [op : {"scatter_chunked"}, inputs : Batches,
          target_gpus : DeviceLists, dim : {0}]
    \cup [op : {"scatter_chunked_kwargs"}, inputs : Positionals,
          kwargs : Nameds, target_gpus : DeviceLists, dim : {0}]

(***************************************************************************)
(* The distributor as a state machine: a call is pending, then returned.   *)
(***************************************************************************)
Init == call \in Calls /\ ret = NoReturn

Pending(op) == call.op = op /\ ret = NoReturn

ChunkSizes ==
  /\ Pending("chunk_sizes")
  /\ ret' = Ok(chunk_sizes(call.lengths, call.num_targets))
  /\ UNCHANGED call

\* `call` holds the caller's objects: after the call, what they then hold
ChunkPackedTensor ==
  /\ Pending("chunk_packed_tensor")
  /\ ret' = chunk_packed_tensor(call.tensor, call.targets)
  /\ call' = [call EXCEPT !.tensor =
                chunk_packed_tensor_call(call.tensor, call.targets).tensor]

ScatterChunked ==
  /\ Pending("scatter_chunked")
  /\ ret' = scatter_chunked(call.inputs, call.target_gpus, call.dim)
  /\ call' = [call EXCEPT !.inputs =
                scatter_map_source(call.inputs, call.target_gpus, call.dim)]

ScatterChunkedKwargs ==
  /\ Pending("scatter_chunked_kwargs")
  /\ ret' = scatter_chunked_kwargs(call.inputs, call.kwargs,
                                   call.target_gpus, call.dim)
  /\ call' = scatter_chunked_kwargs_source(call)

\* WeightDemodulation(module): the constructor returns or raises; the layer
\* handed to it is the caller's object
Construct ==
  /\ Pending("WeightDemodulation")
  /\ LET made == WeightDemodulation_init(call.module, call.gain,
                                         call.lr_scale, call.epsilon)
     IN /\ ret' = made.ret
        /\ call' = [call EXCEPT !.module = made.module]

Next ==
  \/ ChunkSizes
  \/ ChunkPackedTensor
  \/ ScatterChunked
  \/ ScatterChunkedKwargs
  \/ Construct

Spec == Init /\ [][Next]_vars

Returned(op) == call.op = op /\ ret # NoReturn /\ ret.ok

(***************************************************************************)
(* Numbers.  Tensor entries are exact rationals <<numerator, denominator>> *)
(* with a positive denominator, in lowest terms; exact equality stands for *)
(* equality within floating tolerance.                                     *)
(***************************************************************************)
Abs(n) == IF n < 0 THEN -n ELSE n

RECURSIVE GCD(_, _)
GCD(a, b) == IF b = 0 THEN a ELSE GCD(b, a % b)

Q(n, d) ==
  LET g == GCD(Abs(n), Abs(d))
      s == IF d < 0 THEN -1 ELSE 1
  IN <<(s * n) \div g, (s * d) \div g>>

Whole(n) == <<n, 1>>

QAdd(a, b) == Q(a[1] * b[2] + b[1] * a[2], a[2] * b[2])

QMul(a, b) == Q(a[1] * b[1], a[2] * b[2])

QDiv(a, b) == Q(a[1] * b[2], a[2] * b[1])

QLess(a, b) == a[1] * b[2] < b[1] * a[2]

RECURSIVE QSum(_)
QSum(s) == IF s = <<>> THEN Whole(0) ELSE QAdd(Head(s), QSum(Tail(s)))

\* exp of an integer logit, to the base 2: positive, and exp(a + b) =
\* exp(a) * exp(b), which is all that softmax relies on
Exp(a) == IF a[1] >= 0 THEN <<2 ^ a[1], 1>> ELSE <<1, 2 ^ (-a[1])>>

\* square root of a perfect square
Sqrt(n) == CHOOSE r \in 0..n : r * r = n

(***************************************************************************)
(* Dense tensors: a shape and the entries in row-major order.  Dimensions  *)
(* are numbered from 0, negative ones count from the end.                  *)
(***************************************************************************)
RECURSIVE Size(_)
Size(shape) == IF shape = <<>> THEN 1 ELSE Head(shape) * Size(Tail(shape))

Stride(shape, k) == Size(SubSeq(shape, k + 1, Len(shape)))

Strides(shape) == [k \in 1..Len(shape) |-> Stride(shape, k)] \o <<>>

Unravel(shape, strides, p) ==
  [k \in 1..Len(shape) |-> (p \div strides[k]) % shape[k]] \o <<>>

RECURSIVE Ravel(_, _, _, _)
Ravel(shape, idx, k, acc) ==
  IF k > Len(shape) THEN acc
  ELSE Ravel(shape, idx, k + 1, acc * shape[k] + idx[k])

At(t, idx) == t.data[Ravel(t.shape, idx, 1, 0) + 1]

\* the entries are computed once, when the tensor is made
Build(shape, f(_)) ==
  LET strides == Strides(shape)
  IN [shape |-> shape,
      data |-> [p \in 1..Size(shape) |-> f(Unravel(shape, strides, p - 1))]
                 \o <<>>]

Rank(t) == Len(t.shape)

Dim(t, d) == IF d < 0 THEN Rank(t) + d ELSE d

RemoveAt(s, k) == SubSeq(s, 1, k - 1) \o SubSeq(s, k + 1, Len(s))

InsertAt(s, k, v) == SubSeq(s, 1, k - 1) \o <<v>> \o SubSeq(s, k, Len(s))

\* tensor.view(*shape), one entry of which may be -1
view(t, shape) ==
  LET known == Size([k \in DOMAIN shape |->
                       IF shape[k] = -1 THEN 1 ELSE shape[k]])
  IN [shape |-> [k \in DOMAIN shape |->
                   IF shape[k] = -1 THEN IF known = 0 THEN 0
                                         ELSE Size(t.shape) \div known
                   ELSE shape[k]],
      data |-> t.data]

unsqueeze(t, d) ==
  LET k == IF d < 0 THEN Rank(t) + d + 1 ELSE d
  IN [shape |-> InsertAt(t.shape, k + 1, 1), data |-> t.data]

ValidDim(t, d) == -Rank(t) <= d /\ d < Rank(t)

transpose(t, d0, d1) ==
  LET a == Dim(t, d0) + 1
      b == Dim(t, d1) + 1
      swap(s) == [s EXCEPT ![a] = s[b], ![b] = s[a]]
  IN Build(swap(t.shape), LAMBDA idx : At(t, swap(idx)))

Map(t, f(_)) ==
  [shape |-> t.shape, data |-> [p \in DOMAIN t.data |-> f(t.data[p])] \o <<>>]

\* elementwise a (op) b with broadcasting of dimensions of size 1
Broadcast(a, b, op(_, _)) ==
  LET r == Max(Rank(a), Rank(b))
      pad(t) == [k \in 1..r |->
                   IF k <= r - Rank(t) THEN 1 ELSE t.shape[k - (r - Rank(t))]]
                  \o <<>>
      pa == pad(a)
      pb == pad(b)
      pick(p, idx) == [k \in 1..r |-> IF p[k] = 1 THEN 0 ELSE idx[k]]
      shape == [k \in 1..r |-> IF pa[k] = 1 THEN pb[k] ELSE pa[k]] \o <<>>
      da == a.data
      db == b.data
  IN Build(shape,
           LAMBDA idx : op(da[Ravel(pa, pick(pa, idx), 1, 0) + 1],
                           db[Ravel(pb, pick(pb, idx), 1, 0) + 1]))

add(a, b) == Broadcast(a, b, QAdd)

mul(a, b) == Broadcast(a, b, QMul)

div(a, b) == Broadcast(a, b, QDiv)

Scalar(q) == [shape |-> <<>>, data |-> <<q>>]

relu(t) == Map(t, LAMBDA x : IF x[1] < 0 THEN Whole(0) ELSE x)

\* the entries of t along dimension k (1-based) through the position idx of
\* the other dimensions
Along(t, k, idx) ==
  [j \in 1..t.shape[k] |-> At(t, InsertAt(idx, k, j - 1))]

sum(t, d) ==
  LET k == Dim(t, d) + 1
  IN Build(RemoveAt(t.shape, k), LAMBDA idx : QSum(Along(t, k, idx)))

mean(t, d) ==
  LET k == Dim(t, d) + 1
  IN Build(RemoveAt(t.shape, k),
           LAMBDA idx : QDiv(QSum(Along(t, k, idx)), Whole(t.shape[k])))

softmax(t, d) ==
  LET k == Dim(t, d) + 1
      e == Map(t, Exp)
  IN Build(t.shape,
           LAMBDA idx : QDiv(At(e, idx), QSum(Along(e, k, RemoveAt(idx, k)))))

zeros(n, m) == Build(<<n, m>>, LAMBDA idx : Whole(0))

\* torch.cat(tensors, dim=0)
cat(tensors) ==
  [shape |-> <<SumSeq([i \in DOMAIN tensors |-> tensors[i].shape[1]])>>
               \o Tail(tensors[1].shape),
   data |-> Concat([i \in DOMAIN tensors |-> tensors[i].data])]

\* t[ids]: rows of t selected by a tensor of row numbers
Select(t, ids) ==
  Build(ids.shape \o Tail(t.shape),
        LAMBDA idx :
          At(t, <<At(ids, SubSeq(idx, 1, Rank(ids)))>>
                  \o SubSeq(idx, Rank(ids) + 1, Len(idx))))

\* t[i] for one row number
Row(t, i) ==
  Build(Tail(t.shape), LAMBDA idx : At(t, <<i>> \o idx))

\* nn.Linear over the last dimension; weight[o][i], bias[o]
Linear(layer, x) ==
  LET in == x.shape[Rank(x)]
      out == Len(layer.weight)
      k == Rank(x)
  IN Build([x.shape EXCEPT ![k] = out],
           LAMBDA idx :
             QAdd(Whole(layer.bias[idx[k] + 1]),
                  QSum([i \in 1..in |->
                          QMul(Whole(layer.weight[idx[k] + 1][i]),
                               At(x, [idx EXCEPT ![k] = i - 1]))])))

\* a tensor of integers from nested rows
Matrix(rows, width) ==
  [shape |-> <<Len(rows), width>>,
   data |-> Concat([i \in DOMAIN rows |-> [j \in 1..width |-> Whole(rows[i][j])]])]

(***************************************************************************)
(* Segment primitives of torchsupport.structured.scatter, keyed by the     *)
(* segment id of each row of dim 0; an empty segment yields zero.          *)
(***************************************************************************)
Segment(indices, n) == {e \in 1..Len(indices.data) : indices.data[e] = n}

SegmentSum(data, indices, n, rest) ==
  QSum([e \in 1..Len(indices.data) |->
          IF e \in Segment(indices, n) THEN At(data, <<e - 1>> \o rest)
          ELSE Whole(0)])

scatter_add(data, indices, dim_size) ==
  Build(<<dim_size>> \o Tail(data.shape),
        LAMBDA idx : SegmentSum(data, indices, idx[1], Tail(idx)))

scatter_mean(data, indices, dim_size) ==
  Build(<<dim_size>> \o Tail(data.shape),
        LAMBDA idx :
          IF Segment(indices, idx[1]) = {} THEN Whole(0)
          ELSE QDiv(SegmentSum(data, indices, idx[1], Tail(idx)),
                    Whole(Cardinality(Segment(indices, idx[1])))))

scatter_softmax(data, indices, dim_size) ==
  LET e == Map(data, Exp)
  IN Build(data.shape,
           LAMBDA idx :
             QDiv(At(e, idx),
                  SegmentSum(e, indices, indices.data[idx[1] + 1], Tail(idx))))

(***************************************************************************)
(* Message structures (torchsupport.structured.structures).                *)
(***************************************************************************)
Ids(shape, data) == [shape |-> shape, data |-> data]

ConstantStructure(connections) ==
  [mode |-> "constant", connections |-> connections]

ScatterStructure(connections, indices, node_count) ==
  [mode |-> "scatter", connections |-> connections, indices |-> indices,
   node_count |-> node_count]

\* one connection list per target node
ConnectionStructure(connections) ==
  [mode |-> "other", lists |-> connections]

mode_is(structure, mode) == structure.mode = mode

message(structure, source, target) ==
  CASE structure.mode = "constant" -> Select(source, structure.connections)
    [] structure.mode = "scatter" ->
         [source |-> Select(source, structure.connections),
          target |-> Select(target, structure.indices),
          indices |-> structure.indices,
          node_count |-> structure.node_count]
    [] OTHER ->
         [i \in DOMAIN structure.lists |->
            unsqueeze(Select(source, structure.lists[i]), 0)]

(***************************************************************************)
(* basic.py                                                                *)
(***************************************************************************)
\* a flattening that runs through the nodes before the neighbours
flatten_message_by_neighbour(msg) ==
  view(transpose(msg, 0, 1), <<-1>> \o SubSeq(msg.shape, 3, Rank(msg)))

flatten_message(msg) == view(msg, <<-1>> \o SubSeq(msg.shape, 3, Rank(msg)))

unflatten_message(output, msg) ==
  view(output, SubSeq(msg.shape, 1, 2) \o Tail(output.shape))

Done(out, calls) ==
  [ok |-> TRUE, out |-> out, error |-> "", message |-> <<>>, calls |-> calls]

Fail(error, text, calls) ==
  [ok |-> FALSE, out |-> <<>>, error |-> error, message |-> text,
   calls |-> calls]

\* a learned layer being applied
Layer(name) == [fn |-> "layer", name |-> name]

\* learned weights: nn.Linear(in, out) with integer entries
Weights(weight, bias) == [weight |-> weight, bias |-> bias]

ConnectedModule(class, has_scatter, layers) ==
  [class |-> class, has_scatter |-> has_scatter, layers |-> layers]

NeighbourLinear ==
  ConnectedModule("NeighbourLinear", TRUE,
    [linear |-> Weights(<<<<1, -1>>, <<0, 2>>>>, <<0, -1>>)])

NeighbourLinear_reduce_scatter(self, own_data, source_message, indices, node_count) ==
  Done(scatter_mean(add(own_data, relu(Linear(self.layers.linear, source_message))),
                    indices, node_count),
       <<Layer("linear")>>)

NeighbourLinear_reduce(self, own_data, source_message) ==
  LET inputs == flatten_message(source_message)
      out == unflatten_message(Linear(self.layers.linear, inputs), source_message)
  IN Done(add(own_data, mean(relu(out), 1)), <<Layer("linear")>>)

NeighbourAssignment ==
  ConnectedModule("NeighbourAssignment", TRUE,
    [linears |-> <<Weights(<<<<1, 0>>, <<1, 1>>>>, <<0, 0>>),
                   Weights(<<<<0, -1>>, <<2, 1>>>>, <<0, 0>>)>>,
     bias |-> Matrix(<<<<1, -2>>>>, 2),
     source |-> Weights(<<<<1, 0>>, <<0, 1>>>>, <<0, 1>>),
     target |-> Weights(<<<<0, 1>>, <<1, -1>>>>, <<1, 0>>)])

NeighbourAssignment_reduce_scatter(self, own_data, source_message, indices, node_count) ==
  LET target == Linear(self.layers.target, own_data)
      source == Linear(self.layers.source, source_message)
      weight_tensors == [m \in DOMAIN self.layers.linears |->
                           unsqueeze(Linear(self.layers.linears[m], source_message), 0)]
      weighted == cat(weight_tensors)
      assignment == unsqueeze(softmax(add(source, target), -1), 0)
      calls == <<Layer("target"), Layer("source")>>
                 \o [m \in DOMAIN self.layers.linears |-> Layer("linears")]
  IN IF ~ValidDim(assignment, 3)
     THEN Fail("IndexError", <<"Dimension", "out", "of", "range">>, calls)
     \* scatter.mean(result, dim_size=node_count): no segment ids are passed
     ELSE Fail("TypeError", <<"missing", "argument", "indices">>, calls)

NeighbourAssignment_reduce(self, own_data, source_message) ==
  LET inputs == flatten_message(source_message)
      target == unsqueeze(Linear(self.layers.target, own_data), 0)
      source0 == Linear(self.layers.source, inputs)
      weight_tensors ==
        [m \in DOMAIN self.layers.linears |->
           unsqueeze(unflatten_message(Linear(self.layers.linears[m], inputs),
                                       source_message), 0)]
      weighted == cat(weight_tensors)
      source == unflatten_message(source0, source_message)
      assignment ==
        unsqueeze(softmax(add(source, transpose(target, 0, 1)), 1), 0)
      result == mean(sum(mul(transpose(assignment, 0, 3), weighted), 0), 1)
  IN Done(add(result, self.layers.bias),
          <<Layer("target"), Layer("source")>>
            \o [m \in DOMAIN self.layers.linears |-> Layer("linears")])

AttentionLayers ==
  [query |-> Weights(<<<<1, 0>>, <<1, -1>>>>, <<0, 1>>),
   key |-> Weights(<<<<0, 1>>, <<1, 1>>>>, <<-1, 0>>),
   value |-> Weights(<<<<2, 0>>, <<-1, 1>>>>, <<1, 0>>)]

NeighbourDotAttention ==
  ConnectedModule("NeighbourDotAttention", TRUE, AttentionLayers)

NeighbourAddAttention ==
  ConnectedModule("NeighbourAddAttention", TRUE, AttentionLayers)

NeighbourAttention_attend(self, query, data) ==
  IF self.class = "NeighbourDotAttention" THEN sum(mul(query, data), -1)
  ELSE sum(add(query, data), -1)

AttentionCalls == <<Layer("query"), Layer("key"), Layer("value")>>

NeighbourAttention_reduce_scatter(self, own_data, source_message, indices, node_count) ==
  LET target == Linear(self.layers.query, own_data)
      source == Linear(self.layers.key, source_message)
      value == Linear(self.layers.value, source_message)
      attention == scatter_softmax(NeighbourAttention_attend(self, target, source),
                                   indices, node_count)
      result == scatter_add(mul(unsqueeze(attention, -1), value),
                            indices, node_count)
  IN Done(result, AttentionCalls)

NeighbourAttention_reduce(self, own_data, source_message) ==
  LET target == Linear(self.layers.query, own_data)
      inputs == flatten_message(source_message)
      source == unflatten_message(Linear(self.layers.key, inputs), source_message)
      value == unflatten_message(Linear(self.layers.value, inputs), source_message)
      attention ==
        softmax(NeighbourAttention_attend(self, unsqueeze(target, 1), source), 1)
      result == sum(mul(unsqueeze(attention, -1), value), 1)
  IN Done(result, AttentionCalls)

MultiHead(class) ==
  [class |-> class, has_scatter |-> TRUE,
   attention_size |-> 1, heads |-> 2, out_size |-> 2,
   layers |-> [query |-> Weights(<<<<1, 0>>, <<1, -1>>>>, <<0, 1>>),
               key |-> Weights(<<<<0, 1>>, <<1, 1>>>>, <<-1, 0>>),
               value |-> Weights(<<<<2, 0>>, <<-1, 1>>>>, <<1, 0>>),
               output |-> Weights(<<<<1, 1>>, <<0, -1>>>>, <<1, -1>>)]]

NeighbourDotMultiHeadAttention == MultiHead("NeighbourDotMultiHeadAttention")

NeighbourAddMultiHeadAttention == MultiHead("NeighbourAddMultiHeadAttention")

NeighbourMultiHeadAttention_attend(self, query, data) ==
  IF self.class = "NeighbourDotMultiHeadAttention"
  THEN LET scaling == Scalar(Whole(Sqrt(self.attention_size)))
       IN div(sum(mul(query, data), -2), scaling)
  ELSE sum(add(query, data), -2)

\* t.view(*t.shape[:-drop], -1, *tail)
ViewHeads(t, like, drop, tail) ==
  view(t, SubSeq(like.shape, 1, Rank(like) - drop) \o <<-1>> \o tail)

\* NeighbourMultiHeadAttention.reduce_scatter past its zero-edge return
MultiHeadScatter(self, own_data, source_message, indices, node_count) ==
  LET target == ViewHeads(Linear(self.layers.query, own_data),
                          own_data, 1, <<self.heads>>)
      source == ViewHeads(Linear(self.layers.key, source_message),
                          source_message, 1, <<self.heads>>)
      value == ViewHeads(Linear(self.layers.value, source_message),
                         source_message, 1, <<self.heads>>)
      attention ==
        scatter_softmax(NeighbourMultiHeadAttention_attend(self, target, source),
                        indices, node_count)
      result == scatter_add(mul(unsqueeze(attention, -2), value),
                            indices, node_count)
  IN Done(Linear(self.layers.output, ViewHeads(result, result, 2, <<>>)),
          <<Layer("query"), Layer("key"), Layer("value"), Layer("output")>>)

\* a reduce_scatter without the zero-edge return
NeighbourMultiHeadAttention_reduce_scatter_unguarded(self, own_data, source_message, indices, node_count) ==
  MultiHeadScatter(self, own_data, source_message, indices, node_count)

NeighbourMultiHeadAttention_reduce_scatter(self, own_data, source_message, indices, node_count) ==
  IF indices.shape[1] = 0
  THEN Done(zeros(node_count, self.out_size), <<>>)
  ELSE MultiHeadScatter(self, own_data, source_message, indices, node_count)

NeighbourMultiHeadAttention_reduce(self, own_data, source_message) ==
  LET target == ViewHeads(Linear(self.layers.query, own_data),
                          own_data, 1, <<self.heads>>)
      source0 == flatten_message(source_message)
      inputs == ViewHeads(Linear(self.layers.value, source0),
                          source_message, 1, <<self.heads>>)
      source == ViewHeads(Linear(self.layers.key, source0),
                          source_message, 1, <<self.heads>>)
      attention ==
        unsqueeze(softmax(NeighbourMultiHeadAttention_attend(
                            self, unsqueeze(target, 1), source), 1), -2)
      out == sum(mul(attention, inputs), 1)
  IN Done(Linear(self.layers.output, ViewHeads(out, out, 2, <<>>)),
          <<Layer("query"), Layer("value"), Layer("key"), Layer("output")>>)

\* a reducer that declares the scatter capability
NeighbourReducerScatter(class, reduction) ==
  [class |-> class, has_scatter |-> TRUE, reduction |-> reduction]

\* NeighbourMean, NeighbourSum, NeighbourMin, NeighbourMax, NeighbourMedian
NeighbourReducer(class, reduction) ==
  [class |-> class, has_scatter |-> FALSE, reduction |-> reduction]

Reducers ==
  {NeighbourReducer("NeighbourMean", "mean"),
   NeighbourReducer("NeighbourSum", "sum"),
   NeighbourReducer("NeighbourMin", "min"),
   NeighbourReducer("NeighbourMax", "max"),
   NeighbourReducer("NeighbourMedian", "median")}

\* position (from 1) of the entry of s of rank m (from 0) in sorted order,
\* the first one among equals
Ranked(s, m) ==
  CHOOSE j \in DOMAIN s :
    /\ Cardinality({i \in DOMAIN s : QLess(s[i], s[j])}) <= m
    /\ Cardinality({i \in DOMAIN s : ~QLess(s[j], s[i])}) > m
    /\ \A i \in 1..(j - 1) : s[i] # s[j]

\* torch.min / torch.max / torch.median along a dimension: (values, indices)
Statistic(t, d, rank(_)) ==
  LET k == Dim(t, d) + 1
      pos(idx) == Ranked(Along(t, k, idx), rank(t.shape[k]))
  IN [values |-> Build(RemoveAt(t.shape, k),
                       LAMBDA idx : Along(t, k, idx)[pos(idx)]),
      indices |-> Build(RemoveAt(t.shape, k), LAMBDA idx : pos(idx) - 1)]

NeighbourReducer_reduce(self, own_data, source_message) ==
  Done(CASE self.reduction = "mean" -> mean(source_message, 1)
         [] self.reduction = "sum" -> sum(source_message, 1)
         [] self.reduction = "min" ->
              Statistic(source_message, 1, LAMBDA n : 0)
         [] self.reduction = "max" ->
              Statistic(source_message, 1, LAMBDA n : n - 1)
         [] self.reduction = "median" ->
              Statistic(source_message, 1, LAMBDA n : (n - 1) \div 2),
       <<>>)

Strategies ==
  {NeighbourLinear, NeighbourAssignment, NeighbourDotAttention,
   NeighbourAddAttention, NeighbourDotMultiHeadAttention,
   NeighbourAddMultiHeadAttention} \cup Reducers

reduce(self, own_data, source_message) ==
  CASE self.class = "NeighbourLinear" ->
         NeighbourLinear_reduce(self, own_data, source_message)
    [] self.class = "NeighbourAssignment" ->
         NeighbourAssignment_reduce(self, own_data, source_message)
    [] self.class \in {"NeighbourDotAttention", "NeighbourAddAttention"} ->
         NeighbourAttention_reduce(self, own_data, source_message)
    [] self.class \in {"NeighbourDotMultiHeadAttention",
                       "NeighbourAddMultiHeadAttention"} ->
         NeighbourMultiHeadAttention_reduce(self, own_data, source_message)
    [] OTHER -> NeighbourReducer_reduce(self, own_data, source_message)

reduce_scatter(self, own_data, source_message, indices, node_count) ==
  CASE self.class = "NeighbourLinear" ->
         NeighbourLinear_reduce_scatter(self, own_data, source_message,
                                        indices, node_count)
    [] self.class = "NeighbourAssignment" ->
         NeighbourAssignment_reduce_scatter(self, own_data, source_message,
                                            indices, node_count)
    [] self.class \in {"NeighbourDotAttention", "NeighbourAddAttention"} ->
         NeighbourAttention_reduce_scatter(self, own_data, source_message,
                                           indices, node_count)
    [] self.class \in {"NeighbourDotMultiHeadAttention",
                       "NeighbourAddMultiHeadAttention"} ->
         NeighbourMultiHeadAttention_reduce_scatter(self, own_data,
                                                    source_message, indices,
                                                    node_count)
    \* ConnectedModule.reduce_scatter
    [] OTHER -> Fail("NotImplementedError", <<"Abstract">>, <<>>)

\* the text of the exception of ConnectedModule.forward, word by word; the
\* literal is not an f-string, so the braces are not substituted
UnsupportedModeText(self) ==
  <<"Scattering-based", "implementation", "not", "supported", "for",
    "{self.__class__.__name__}", ".">>

IsTensor(x) == "shape" \in DOMAIN x

\* a loop that hands every reduce the first target row
TargetRowFirst(target, idx) == unsqueeze(Row(target, 0), 0)

\* target[idx].unsqueeze(dim=0)
TargetRow(target, idx) == unsqueeze(Row(target, idx), 0)

Called(fn) == [fn |-> fn]

ReduceCall(own_data, source_message) ==
  [fn |-> "reduce", own_data |-> own_data, source_message |-> source_message]

\* a dispatch that tests the capability before the mode
forward_path_capability_first(self, structure) ==
  IF ~self.has_scatter THEN "raise"
  ELSE IF mode_is(structure, "constant") THEN "reduce"
  ELSE IF mode_is(structure, "scatter") THEN "reduce_scatter"
  ELSE "loop"

\* the branch forward takes: the mode tests in their order, the capability
\* test inside the scatter branch
forward_path(self, structure) ==
  IF mode_is(structure, "constant") THEN "reduce"
  ELSE IF mode_is(structure, "scatter")
  THEN IF ~self.has_scatter THEN "raise" ELSE "reduce_scatter"
  ELSE "loop"

forward(self, source, target, structure) ==
  IF forward_path(self, structure) = "reduce"
  THEN LET msg == message(structure, source, target)
           r == reduce(self, target, msg)
       IN [r EXCEPT !.calls = <<Called("message"), ReduceCall(target, msg)>> \o @]
  ELSE IF forward_path(self, structure) \in {"raise", "reduce_scatter"}
  THEN IF forward_path(self, structure) = "raise"
       THEN Fail("NotImplementedError", UnsupportedModeText(self), <<>>)
       ELSE LET m == message(structure, source, target)
                r == reduce_scatter(self, m.target, m.source, m.indices,
                                    m.node_count)
            IN [r EXCEPT !.calls =
                  <<Called("message"),
                    [fn |-> "reduce_scatter", own_data |-> m.target,
                     source_message |-> m.source, indices |-> m.indices,
                     node_count |-> m.node_count]>> \o @]
  ELSE LET messages == message(structure, source, target)
           results == [i \in DOMAIN messages |->
                         reduce(self, TargetRow(target, i - 1), messages[i])]
           calls == <<Called("message")>>
                      \o Concat([i \in DOMAIN messages |->
                                   <<ReduceCall(TargetRow(target, i - 1),
                                                messages[i])>>
                                     \o results[i].calls])
       IN IF \E i \in DOMAIN results : ~IsTensor(results[i].out)
          THEN Fail("TypeError", <<"expected", "Tensor">>, calls)
          ELSE Done(cat([i \in DOMAIN results |-> results[i].out]), calls)

(***************************************************************************)
(* Pairwise distance matrices (torchsupport.ops.distance), as the tests of *)
(* test_distance.py call them: two batches of rows of one feature width,   *)
(* the second defaulting to the first, a ValueError when the widths        *)
(* differ.  Entry (i, j) compares row i of data1 with row j of data2.      *)
(***************************************************************************)
\* differences taken with the two batches on each other's axis
squared_differences_swapped(data1, data2) ==
  LET difference == add(unsqueeze(data1, 0),
                        mul(Scalar(Whole(-1)), unsqueeze(data2, 1)))
  IN mul(difference, difference)

\* (data1[:, None] - data2[None, :]) ** 2, of shape (n, m, width)
squared_differences(data1, data2) ==
  LET difference == add(unsqueeze(data1, 1),
                        mul(Scalar(Whole(-1)), unsqueeze(data2, 0)))
  IN mul(difference, difference)

sum_of_squared_distance_matrix(data1, data2) ==
  sum(squared_differences(data1, data2), -1)

mean_squared_distance_matrix(data1, data2) ==
  mean(squared_differences(data1, data2), -1)

\* exp(-gamma * squared distance), the exponential to the base 2
rbf_distance_matrix(data1, data2, gamma) ==
  Map(sum_of_squared_distance_matrix(data1, data2),
      LAMBDA x : Exp(QMul(Whole(-gamma), x)))

\* the mean of the kernels of several widths
multi_rbf_distance_matrix(data1, data2, gammas) ==
  LET kernels == [g \in DOMAIN gammas |->
                    unsqueeze(rbf_distance_matrix(data1, data2, gammas[g]), 0)]
  IN mean(cat(kernels), 0)

\* func(data1, data2=None)
distance_matrix(func, data1, data2) ==
  LET other == IF data2 = None THEN data1 ELSE data2
  IN IF data1.shape[2] # other.shape[2]
     THEN Fail("ValueError", <<"feature", "dimensions", "differ">>, <<>>)
     ELSE Done(CASE func = "sum_of_squared_distance_matrix" ->
                      sum_of_squared_distance_matrix(data1, other)
                 [] func = "mean_squared_distance_matrix" ->
                      mean_squared_distance_matrix(data1, other)
                 [] func = "rbf_distance_matrix" ->
                      rbf_distance_matrix(data1, other, 1)
                 [] func = "multi_rbf_distance_matrix" ->
                      multi_rbf_distance_matrix(data1, other, <<1, 2>>),
               <<>>)

(***************************************************************************)
(* Graph batches handed to aggregate, and aggregate as a state machine.    *)
(***************************************************************************)
FeatureRows == <<<<1, 0>>, <<-1, 2>>>>

Batch(rows) == Matrix(rows, 2)

\* the source nodes: one row of each kind
SourceBatch == Batch(FeatureRows)

SourceIds == {0, 1}

\* target nodes whose rows alternate between the two kinds, starting with
\* either
TargetBatches(n) ==
  {Batch([i \in 1..n |-> FeatureRows[((i + o) % 2) + 1]]) : o \in {0, 1}}

\* the neighbour lists of k source nodes, in ascending order of source id
NeighbourLists(k) ==
  {c \in [1..k -> SourceIds] : \A a \in 1..(k - 1) : c[a] <= c[a + 1]}

ConstantStructures(n) ==
  UNION {{ConstantStructure(Ids(<<n, k>>, Concat(rows))) :
            rows \in [1..n -> NeighbourLists(k)]} :
           k \in 1..MaxNeighbours}

\* edges grouped by target: the target ids never decrease
Grouped(e, n) ==
  {i \in [1..e -> 0..(n - 1)] : \A a \in 1..(e - 1) : i[a] <= i[a + 1]}

ScatterStructures(n) ==
  UNION {{ScatterStructure(Ids(<<e>>, c), Ids(<<e>>, i), n) :
            c \in [1..e -> SourceIds], i \in Grouped(e, n)} :
           e \in 0..MaxEdges}

\* per-node neighbour lists of differing lengths, alternating between the
\* source nodes
Alternating ==
  {Ids(<<k>>, [j \in 1..k |-> j % 2]) : k \in 1..MaxNeighbours}

ConnectionStructures(n) ==
  {ConnectionStructure(cs) : cs \in [1..n -> Alternating]}

Structures(n) ==
  ConstantStructures(n) \cup ScatterStructures(n) \cup ConnectionStructures(n)

ForwardCalls ==
  UNION {[op : {"forward"}, self : Strategies, source : {SourceBatch},
          target : TargetBatches(n), structure : Structures(n)] :
           n \in 1..MaxNodes}

\* (N, K, C) messages whose entries all differ
FlattenCalls ==
  {[op |-> "flatten_message",
    message |-> [shape |-> <<n, k, c>>,
                 data |-> [p \in 1..(n * k * c) |-> Whole(o + p)]],
    layer |-> Weights(<<<<1, 0>>, <<0, 1>>, <<1, 1>>>>, <<0, 0, 1>>)] :
     n \in 1..MaxNodes, k \in 1..MaxNeighbours, c \in {2}, o \in {0, 10}}

\* batches of one to MaxNodes rows of width 2, and one of width 3
DistanceCalls ==
  LET batches == UNION {{Batch(rows) : rows \in [1..n -> {<<1, 0>>, <<-1, 2>>}]} :
                          n \in 1..MaxNodes}
  IN [op : {"distance_matrix"},
      func : {"sum_of_squared_distance_matrix", "mean_squared_distance_matrix",
              "rbf_distance_matrix", "multi_rbf_distance_matrix"},
      data1 : batches,
      data2 : batches \cup {None, Matrix(<<<<1, 0, 1>>>>, 3)}]

InitAggregate ==
  /\ call \in ForwardCalls \cup FlattenCalls \cup DistanceCalls
  /\ ret = NoReturn

Forward ==
  /\ Pending("forward")
  /\ ret' = forward(call.self, call.source, call.target, call.structure)
  /\ UNCHANGED call

\* flatten_message, a computation on the rows of the flattened message, and
\* unflatten_message of its result and of the flattened message itself
FlattenMessage ==
  /\ Pending("flatten_message")
  /\ LET inputs == flatten_message(call.message)
         out == Linear(call.layer, inputs)
     IN ret' = Done([inputs |-> inputs, out |-> out,
                     unflattened |-> unflatten_message(out, call.message),
                     back |-> unflatten_message(inputs, call.message)], <<>>)
  /\ UNCHANGED call

DistanceMatrix ==
  /\ Pending("distance_matrix")
  /\ ret' = distance_matrix(call.func, call.data1, call.data2)
  /\ UNCHANGED call

NextAggregate == Forward \/ FlattenMessage \/ DistanceMatrix

SpecAggregate == InitAggregate /\ [][NextAggregate]_vars

(***************************************************************************)
(* Properties of the distributor.                                          *)
(***************************************************************************)
NumGraphs == Len(call.tensor.index)

NumDevices == Len(call.targets)

Divisible == NumGraphs % NumDevices = 0

\* rows of the graphs first .. last (0-based), in their original order
RowsOfGraphs(tensor, first, last) ==
  LET start == SumSeq(Slice(tensor.index, 0, first))
      count == SumSeq(Slice(tensor.index, first, last + 1))
  IN SubSeq(tensor.rows, start + 1, start + count)

\* C1: every child packed tensor returned by chunk_packed_tensor has
\* sum(index) equal to its number of value rows.
C1_ChildrenWellFormed ==
  Returned("chunk_packed_tensor") =>
    \A d \in DOMAIN ret.out :
      SumSeq(ret.out[d].index) = Len(ret.out[d].rows)

\* C2: when the graph count is divisible by the device count, device d gets
\* the rows of graphs d*G/N .. (d+1)*G/N - 1 in order, with the index slice
\* index[d*G/N : (d+1)*G/N].
C2_BlockPerDevice ==
  (Returned("chunk_packed_tensor") /\ Divisible) =>
    LET per == NumGraphs \div NumDevices
    IN /\ Len(ret.out) = NumDevices
       /\ \A d \in 0..(NumDevices - 1) :
            /\ ret.out[d + 1].rows =
                 RowsOfGraphs(call.tensor, d * per, (d + 1) * per - 1)
            /\ ret.out[d + 1].index =
                 Slice(call.tensor.index, d * per, (d + 1) * per)

\* C3: when the graph count is divisible by the device count, chunking
\* returns and the shards' rows, concatenated in device order, are the
\* original rows.
C3_SizePreserving ==
  (call.op = "chunk_packed_tensor" /\ ret # NoReturn /\ Divisible) =>
    /\ ret.ok
    /\ Concat([d \in DOMAIN ret.out |-> ret.out[d].rows]) = call.tensor.rows

C3_Witness ==
  /\ Returned("chunk_packed_tensor") /\ Divisible
  /\ NumDevices = 2 /\ NumGraphs = 2
  /\ Len(ret.out[1].rows) = 3 /\ Len(ret.out[2].rows) = 4

IsContainer(obj) ==
  obj.kind \in {"tuple", "list", "dict"} /\ Len(obj.items) > 0

\* the fields of a record: elements of a tuple or list, values of a dict
FieldsOf(obj) ==
  IF obj.kind = "dict"
  THEN [i \in DOMAIN obj.items |-> obj.items[i].items[2]]
  ELSE obj.items

KeysOf(obj) ==
  IF obj.kind = "dict"
  THEN [i \in DOMAIN obj.items |-> obj.items[i].items[1]]
  ELSE [i \in DOMAIN obj.items |-> i]

Alone(obj) == scatter_chunked(obj, call.target_gpus, call.dim)

FieldChunks == [i \in DOMAIN FieldsOf(call.inputs) |-> Alone(FieldsOf(call.inputs)[i])]

SameShape(record, obj) ==
  /\ record.kind = obj.kind
  /\ KeysOf(record) = KeysOf(obj)

FieldwiseChunks(count) ==
  /\ Len(ret.out) = count
  /\ \A d \in DOMAIN ret.out :
       /\ SameShape(ret.out[d], call.inputs)
       /\ \A i \in DOMAIN FieldChunks :
            /\ d \in DOMAIN FieldChunks[i].out
            /\ FieldsOf(ret.out[d])[i] = FieldChunks[i].out[d]

\* C9 as stated: chunking a record, tuple or list over N devices yields N
\* records of the same keys/positions whose fields are the d-th chunks of
\* the fields chunked on their own.
C9_Original ==
  (Returned("scatter_chunked") /\ IsContainer(call.inputs)) =>
    FieldwiseChunks(Len(call.target_gpus))

\* C9 amended: the number of records is the number of chunks of the field
\* that yields the fewest; each record has the same keys/positions and its
\* fields are the d-th chunks of the fields chunked on their own.
C9_FieldwiseChunks ==
  (Returned("scatter_chunked") /\ IsContainer(call.inputs)) =>
    FieldwiseChunks(ZipLen([i \in DOMAIN FieldChunks |-> FieldChunks[i].out]))

C9_Witness ==
  /\ Returned("scatter_chunked")
  /\ call.inputs.kind = "dict" /\ Len(call.inputs.items) = 2
  /\ Len(call.target_gpus) = 3 /\ Len(ret.out) = 2
  /\ FieldsOf(call.inputs)[1].kind = "PackedTensor"
  /\ FieldsOf(call.inputs)[2].kind = "Tensor"
  /\ FieldsOf(ret.out[2])[2].rows # FieldsOf(ret.out[1])[2].rows

ChunkedOrEmpty(obj) == IF Truthy(obj) THEN Alone(obj).out ELSE <<>>

PaddedTo(padded, list, placeholder, length) ==
  /\ Len(padded) = length
  /\ \A d \in DOMAIN padded :
       padded[d] = IF d <= Len(list) THEN list[d] ELSE placeholder

\* C10: scatter_chunked_kwargs returns positional and named collections of
\* equal length; the shorter of the two independently chunked collections
\* is extended with empty placeholders and existing entries stay in place.
C10_PairedPerDevice ==
  Returned("scatter_chunked_kwargs") =>
    LET inputs == ChunkedOrEmpty(call.inputs)
        kwargs == ChunkedOrEmpty(call.kwargs)
        length == Max(Len(inputs), Len(kwargs))
    IN /\ Len(ret.out.inputs) = Len(ret.out.kwargs)
       /\ PaddedTo(ret.out.inputs, inputs, Tuple(<<>>), length)
       /\ PaddedTo(ret.out.kwargs, kwargs, Dict(<<>>), length)

C10_Witness ==
  /\ Returned("scatter_chunked_kwargs")
  /\ Len(ChunkedOrEmpty(call.inputs)) = 1
  /\ Len(ChunkedOrEmpty(call.kwargs)) = 3
  /\ ret.out.inputs[3] = Tuple(<<>>)
  /\ ret.out.inputs[1] # Tuple(<<>>)

\* the values that no rule of scatter_map but the last applies to
Replicable(obj) ==
  \/ obj.kind = "object"
  \/ obj.kind \in {"tuple", "list", "dict"} /\ obj.items = <<>>

\* C11: a value that is neither self-chunking, nor a tensor, nor a
\* non-empty tuple, list or dict is replicated: scatter_chunked returns one
\* entry per device and every entry is the original value (for an opaque
\* object, the object of the same identity `ref`).
C11_Replicated ==
  (call.op = "scatter_chunked" /\ ret # NoReturn /\ Replicable(call.inputs)) =>
    /\ ret.ok
    /\ Len(ret.out) = Len(call.target_gpus)
    /\ \A d \in DOMAIN ret.out : ret.out[d] = call.inputs

C11_Witness ==
  /\ Returned("scatter_chunked")
  /\ call.inputs = Object("cfg")
  /\ Len(call.target_gpus) = 3
  /\ ret.out[3] = Object("cfg")

RECURSIVE SumOver(_, _, _)
\* lengths[lo] + ... + lengths[hi], positions from 1
SumOver(lengths, lo, hi) ==
  IF lo > hi THEN 0 ELSE lengths[lo] + SumOver(lengths, lo + 1, hi)

\* C16: chunk_sizes returns N sizes; size d is the sum of the lengths of
\* graphs d*floor(G/N) .. (d+1)*floor(G/N) - 1; the sizes add up to the rows
\* of the first N*floor(G/N) graphs, which is every row exactly when the
\* remainder graphs are all empty or N divides G.
C16_BlockSizes ==
  (call.op = "chunk_sizes" /\ ret # NoReturn) =>
    LET G == Len(call.lengths)
        N == call.num_targets
        per == G \div N
    IN /\ ret.ok
       /\ Len(ret.out) = N
       /\ \A d \in 0..(N - 1) :
            ret.out[d + 1] = SumOver(call.lengths, d * per + 1, (d + 1) * per)
       /\ SumSeq(ret.out) = SumOver(call.lengths, 1, N * per)
       /\ (SumSeq(ret.out) = SumOver(call.lengths, 1, G))
            <=> (\/ G % N = 0
                 \/ \A g \in (N * per + 1)..G : call.lengths[g] = 0)

C16_Witness ==
  /\ Returned("chunk_sizes")
  /\ call.lengths = <<1, 2, 3>> /\ call.num_targets = 2
  /\ ret.out = <<1, 2>>

\* C18: a Chunkable is chunked by its own chunk(target_gpus, dim) and by
\* nothing else, whatever other class it has: what that call returns is the
\* result, entry for entry, and what it raises is raised; the same holds of
\* a Chunkable field of a tuple, list or dict.
C18_ChunkableFirst ==
  /\ (call.op = "scatter_chunked" /\ ret # NoReturn
        /\ isinstance(call.inputs, "Chunkable")) =>
       IF call.inputs.own = "own"
       THEN /\ ret.ok
            /\ Len(ret.out) = Len(call.target_gpus)
            /\ \A d \in DOMAIN ret.out :
                 ret.out[d] = [kind |-> "own_chunk", of |-> "own",
                               devices |-> call.target_gpus,
                               dim |-> call.dim, part |-> d]
       ELSE ~ret.ok /\ ret.error = "TypeError"
  /\ (Returned("scatter_chunked") /\ IsContainer(call.inputs)) =>
       \A i \in DOMAIN FieldsOf(call.inputs) :
         LET field == FieldsOf(call.inputs)[i]
         IN (isinstance(field, "Chunkable") /\ field.own = "own") =>
              \A d \in DOMAIN ret.out :
                FieldsOf(ret.out[d])[i] =
                  [kind |-> "own_chunk", of |-> "own",
                   devices |-> call.target_gpus, dim |-> call.dim,
                   part |-> d]

C18_Witness ==
  /\ Returned("scatter_chunked")
  /\ isinstance(call.inputs, "Chunkable")
  /\ isinstance(call.inputs, "PackedTensor")
  /\ Len(call.target_gpus) = 3
  /\ ret.out[2].kind = "own_chunk" /\ ret.out[2].part = 2

FewerGraphs ==
  call.op = "chunk_packed_tensor" /\ ret # NoReturn /\ NumGraphs < NumDevices

\* chunk_sizes gives every device the size 0 and the index stride is 0
ZeroShares ==
  /\ chunk_sizes(call.tensor.index, NumDevices) = [d \in 1..NumDevices |-> 0]
  /\ NumGraphs \div NumDevices = 0

\* one child per device, each with an empty index and no rows
EmptyChildren ==
  /\ ret.ok
  /\ Len(ret.out) = NumDevices
  /\ \A d \in DOMAIN ret.out :
       ret.out[d].index = <<>> /\ ret.out[d].rows = <<>>

\* C21 as stated: with fewer graphs than devices chunk_packed_tensor
\* computes size 0 and stride 0 for every device and returns N children,
\* each with an empty index.
C21_Original ==
  FewerGraphs =>
    /\ ZeroShares
    /\ ret.ok
    /\ Len(ret.out) = NumDevices
    /\ \A d \in DOMAIN ret.out : ret.out[d].index = <<>>

\* C21 amended: with fewer graphs than devices chunk_packed_tensor computes
\* size 0 and stride 0 for every device; when the tensor has no rows it
\* returns N children, each with an empty index and no rows, and when it has
\* rows the split by the sizes raises, the sizes adding up to 0 and not to
\* the row count, and no child is returned.
C21_FewerGraphsThanDevices ==
  FewerGraphs =>
    /\ ZeroShares
    /\ IF call.tensor.rows = <<>> THEN EmptyChildren
       ELSE ~ret.ok /\ ret.error = "RuntimeError" /\ ret.out = <<>>

C21_Witness ==
  /\ FewerGraphs
  /\ call.tensor.index = <<1, 2>>
  /\ NumDevices = 3
  /\ ~ret.ok /\ ret.error = "RuntimeError"

Recognized == {"Linear", "Conv1d", "Conv2d", "Conv3d"}

\* C14: constructing WeightDemodulation over a layer that is no Linear,
\* Conv1d, Conv2d or Conv3d raises the unsupported-layer-kind error
\* (NotImplementedError) from the constructor, and constructing it over one
\* of the four kinds does not raise that error.
C14_UnsupportedKindAtConstruction ==
  (call.op = "WeightDemodulation" /\ ret # NoReturn) =>
    IF call.module.bases \cap Recognized = {}
    THEN ~ret.ok /\ ret.error = "NotImplementedError"
    ELSE ret.error # "NotImplementedError"

\* what holds of the code: the constructor never returns a wrapper over an
\* unrecognized layer, and raises NotImplementedError for one that has a
\* weight and a bias tensor
UnsupportedKindNeverWrapped ==
  (call.op = "WeightDemodulation" /\ ret # NoReturn) =>
    IF call.module.bases \cap Recognized = {}
    THEN /\ ~ret.ok
         /\ ret.error = "NotImplementedError"
              <=> (call.module.weight \notin {"absent", "None"}
                     /\ call.module.bias \notin {"absent", "None"})
    ELSE ret.error # "NotImplementedError"

Distributor == {"chunk_packed_tensor", "scatter_chunked", "scatter_chunked_kwargs"}

\* C12: a call of chunk_packed_tensor, scatter_chunked or
\* scatter_chunked_kwargs leaves the source batch as it was: the values and
\* index of every source packed tensor and every input tuple, list and dict
\* hold after the call what they held before it.
C12_SourceUnchanged == [][call.op \in Distributor => call' = call]_vars

C12_Witness ==
  /\ Returned("scatter_chunked_kwargs")
  /\ call.inputs = Tuple(<<>>)
  /\ Len(call.kwargs.items) = 1
  /\ FieldsOf(call.kwargs)[1].kind = "PackedTensor"
  /\ FieldsOf(call.kwargs)[1].index = <<1, 2>>
  /\ Len(call.target_gpus) = 2
  /\ FieldsOf(ret.out.kwargs[2])[1].index = <<1>>
  /\ ret.out.inputs = <<Tuple(<<>>), Tuple(<<>>)>>

\* The mutable state reachable from a value of the batch that stands at
\* `path`, each piece under a name that two references to it share: an
\* opaque object by its identity, a row of a tensor by the tensor's place in
\* the batch and the row, an empty list or dict by its place in the batch
\* (scatter_chunked makes none of its own).  Dict keys and tuples are
\* immutable, and what a Chunkable's own chunk returns is its own affair.
RECURSIVE Reachable(_, _)
Reachable(value, path) ==
  CASE value.kind = "object" -> {[object |-> value.ref]}
    [] value.kind \in {"Tensor", "PackedTensor"} ->
         {[tensor |-> path, row |-> value.rows[r]] : r \in DOMAIN value.rows}
    [] value.kind \in {"tuple", "list", "dict"} /\ value.items # <<>> ->
         UNION {Reachable(FieldsOf(value)[i], path \o <<i>>) :
                  i \in DOMAIN FieldsOf(value)}
    [] value.kind \in {"list", "dict"} /\ value.items = <<>> ->
         {[empty |-> value.kind, at |-> path]}
    [] OTHER -> {}

Shares ==
  IF call.op = "scatter_chunked_kwargs"
  THEN [d \in DOMAIN ret.out.inputs |->
          Reachable(ret.out.inputs[d], <<1>>)
            \cup (IF d <= Len(ChunkedOrEmpty(call.kwargs))
                  THEN Reachable(ret.out.kwargs[d], <<2>>) ELSE {})]
  ELSE [d \in DOMAIN ret.out |-> Reachable(ret.out[d], <<>>)]

Produced == call.op \in Distributor /\ ret # NoReturn /\ ret.ok

\* C13 as stated: no mutable object is reachable from the shares of two
\* different devices.
C13_Original ==
  Produced =>
    \A d, e \in DOMAIN Shares : d # e => Shares[d] \cap Shares[e] = {}

\* the objects of the source batch that scatter_map replicates
Replicated ==
  LET source == IF call.op = "chunk_packed_tensor" THEN {}
                ELSE IF call.op = "scatter_chunked"
                THEN Reachable(call.inputs, <<>>)
                ELSE Reachable(call.inputs, <<1>>)
                       \cup Reachable(call.kwargs, <<2>>)
  IN {c \in source : "tensor" \notin DOMAIN c}

\* C13 amended: no row of a tensor is reachable from the shares of two
\* different devices, and an object that is reachable from two shares is an
\* opaque object or an empty list or dict of the source batch, which
\* scatter_map replicates by reference.
C13_OnlyReplicatedShared ==
  Produced =>
    \A d, e \in DOMAIN Shares :
      d # e => (Shares[d] \cap Shares[e]) \subseteq Replicated

C13_Witness ==
  /\ Returned("scatter_chunked")
  /\ call.inputs.kind = "tuple" /\ Len(call.inputs.items) = 2
  /\ call.inputs.items[1].kind = "Tensor"
  /\ call.inputs.items[2] = Object("cfg")
  /\ Len(ret.out) = 3
  /\ Shares[1] \cap Shares[3] = {[object |-> "cfg"]}
  /\ Cardinality(Shares[1]) = 2

(***************************************************************************)
(* Properties of aggregate.                                                *)
(***************************************************************************)
Aggregated == call.op = "forward" /\ ret # NoReturn

Mode == call.structure.mode

NumTargets == call.target.shape[1]

\* the scatter-mode structure that lists the edges of a constant-mode one,
\* target by target
ScatterEquivalent(structure) ==
  LET n == structure.connections.shape[1]
      k == structure.connections.shape[2]
  IN ScatterStructure(Ids(<<n * k>>, structure.connections.data),
                      Ids(<<n * k>>, [e \in 1..(n * k) |-> (e - 1) \div k]),
                      n)

BothModes == {s \in Strategies : s.has_scatter}

\* C4: for every strategy with both modes, aggregate on a constant-mode
\* structure and on the scatter-mode structure with the same edges give the
\* same output rows.
C4_ModesAgree ==
  (Aggregated /\ Mode = "constant" /\ call.self \in BothModes) =>
    LET scattered == forward(call.self, call.source, call.target,
                             ScatterEquivalent(call.structure))
    IN ret.ok /\ scattered.ok /\ scattered.out = ret.out

\* what holds of the code: the modes agree for every strategy with both
\* modes but NeighbourAssignment
ModesAgreeButAssignment ==
  (Aggregated /\ Mode = "constant" /\ call.self \in BothModes
     /\ call.self.class # "NeighbourAssignment") =>
    LET scattered == forward(call.self, call.source, call.target,
                             ScatterEquivalent(call.structure))
    IN ret.ok /\ scattered.ok /\ scattered.out = ret.out

RECURSIVE Positions(_, _)
\* the positions of v in the sequence s, in order
Positions(s, v) ==
  IF s = <<>> THEN <<>>
  ELSE Positions(SubSeq(s, 1, Len(s) - 1), v)
         \o (IF s[Len(s)] = v THEN <<Len(s)>> ELSE <<>>)

\* the neighbourhood of target i (from 0) as a structure of its own
Neighbourhood(structure, i) ==
  CASE structure.mode = "constant" ->
         LET k == structure.connections.shape[2]
         IN ConstantStructure(
              Ids(<<1, k>>, SubSeq(structure.connections.data,
                                   i * k + 1, (i + 1) * k)))
    [] structure.mode = "scatter" ->
         LET edges == Positions(structure.indices.data, i)
         IN ScatterStructure(
              Ids(<<Len(edges)>>,
                  [e \in DOMAIN edges |-> structure.connections.data[edges[e]]]),
              Ids(<<Len(edges)>>, [e \in DOMAIN edges |-> 0]), 1)
    [] OTHER -> ConnectionStructure(<<structure.lists[i + 1]>>)

HasNeighbours(structure, i) ==
  structure.mode = "scatter" => Positions(structure.indices.data, i) # <<>>

\* row i of an output: of a tensor, or of the (values, indices) pair of a
\* min, max or median
RowOf(out, i) ==
  IF IsTensor(out) THEN Row(out, i)
  ELSE [values |-> Row(out.values, i), indices |-> Row(out.indices, i)]

RowCount(out) ==
  IF IsTensor(out) THEN out.shape[1] ELSE out.values.shape[1]

OnItsOwn(i) ==
  forward(call.self, call.source, unsqueeze(Row(call.target, i), 0),
          Neighbourhood(call.structure, i))

ReduceCalls(calls) == SelectSeq(calls, LAMBDA c : c.fn = "reduce")

C6_ErrorNamesStrategy ==
  (Aggregated /\ Mode = "scatter" /\ ~call.self.has_scatter) =>
    /\ ~ret.ok
    /\ ret.error = "NotImplementedError"
    /\ \E w \in DOMAIN ret.message : ret.message[w] = call.self.class

MultiHeads ==
  {"NeighbourDotMultiHeadAttention", "NeighbourAddMultiHeadAttention"}

NoEdges == Mode = "scatter" /\ call.structure.indices.shape[1] = 0

LayersInvoked(calls) == SelectSeq(calls, LAMBDA c : c.fn = "layer")

\* C7: multi-head scatter reduce over zero edges returns node_count x
\* out_size zeros, raises nothing and invokes no learned layer.
C7_ZeroEdges ==
  (Aggregated /\ call.self.class \in MultiHeads /\ NoEdges) =>
    /\ ret.ok
    /\ ret.out.shape = <<call.structure.node_count, call.self.out_size>>
    /\ \A p \in DOMAIN ret.out.data : ret.out.data[p] = Whole(0)
    /\ LayersInvoked(ret.calls) = <<>>

C7_Witness ==
  /\ Aggregated /\ call.self.class \in MultiHeads /\ NoEdges
  /\ call.structure.node_count = 2
  /\ Len(ret.out.data) = 4

IsZeroRow(out, i) ==
  LET row == Row(out, i)
  IN \A p \in DOMAIN row.data : row.data[p] = Whole(0)

\* C8: in scatter mode every scatter-capable strategy returns node_count
\* rows, and the row of a target without incident edge is all zeros.
C8_IsolatedTargetsZero ==
  (Aggregated /\ Mode = "scatter" /\ call.self.has_scatter) =>
    /\ ret.ok
    /\ ret.out.shape[1] = call.structure.node_count
    /\ \A i \in 0..(call.structure.node_count - 1) :
         ~HasNeighbours(call.structure, i) => IsZeroRow(ret.out, i)

\* what holds of the code: C8 for NeighbourLinear and single-head attention
IsolatedTargetsZeroSingle ==
  (Aggregated /\ Mode = "scatter"
     /\ call.self.class \in {"NeighbourLinear", "NeighbourDotAttention",
                             "NeighbourAddAttention"}) =>
    /\ ret.ok
    /\ ret.out.shape[1] = call.structure.node_count
    /\ \A i \in 0..(call.structure.node_count - 1) :
         ~HasNeighbours(call.structure, i) => IsZeroRow(ret.out, i)

\* the unsupported-mode error of forward
UnsupportedMode(r) ==
  /\ ~r.ok
  /\ r.error = "NotImplementedError"
  /\ r.message # <<>> /\ r.message[1] = "Scattering-based"

PlainReducers ==
  {"NeighbourMean", "NeighbourSum", "NeighbourMin", "NeighbourMax",
   "NeighbourMedian"}

\* C17: the plain reducers declare no scatter capability and always fail
\* with unsupported-mode on a scatter-mode structure; linear, assignment,
\* single-head and multi-head attention declare it and never fail with
\* unsupported-mode.
C17_CapabilityTable ==
  (Aggregated /\ Mode = "scatter") =>
    IF call.self.class \in PlainReducers
    THEN ~call.self.has_scatter /\ UnsupportedMode(ret)
    ELSE call.self.has_scatter /\ ~UnsupportedMode(ret)

C17_Witness ==
  /\ Aggregated /\ Mode = "scatter"
  /\ call.self.class = "NeighbourMedian"
  /\ call.structure.indices.shape[1] = 2
  /\ UnsupportedMode(ret)

\* C19: flatten_message turns an (N, K, C) message into N*K rows, row
\* n*K + k being neighbour k of node n; unflatten_message of a row-wise
\* result with C' channels has shape (N, K, C') and entry (n, k) is flat
\* row n*K + k; unflatten(flatten(m), m) = m.
C19_FlattenRoundTrip ==
  (call.op = "flatten_message" /\ ret # NoReturn) =>
    LET m == call.message
        N == m.shape[1]
        K == m.shape[2]
        C == m.shape[3]
        Cout == Len(call.layer.weight)
    IN /\ ret.ok
       /\ ret.out.inputs.shape = <<N * K, C>>
       /\ ret.out.unflattened.shape = <<N, K, Cout>>
       /\ \A n \in 0..(N - 1), k \in 0..(K - 1) :
            /\ \A c \in 0..(C - 1) :
                 At(ret.out.inputs, <<n * K + k, c>>) = At(m, <<n, k, c>>)
            /\ \A c \in 0..(Cout - 1) :
                 At(ret.out.unflattened, <<n, k, c>>) =
                   At(ret.out.out, <<n * K + k, c>>)
       /\ ret.out.back = m

C19_Witness ==
  /\ call.op = "flatten_message" /\ ret # NoReturn
  /\ call.message.shape = <<2, 2, 2>>
  /\ ret.out.inputs.shape = <<4, 2>>
  /\ ret.out.unflattened.shape = <<2, 2, 3>>
  /\ At(ret.out.inputs, <<2, 1>>) = At(call.message, <<1, 0, 1>>)

\* C20: when aggregate fails with unsupported-mode, neither the
\* structure's message nor any reduce was called; and a constant-mode
\* structure is always reduced by the constant-mode reduce, on the whole
\* target and the structure's message, and never raises unsupported-mode,
\* also for a strategy without scatter capability.
C20_ModeTestedFirst ==
  Aggregated =>
    /\ UnsupportedMode(ret) => ret.calls = <<>>
    /\ Mode = "constant" =>
         /\ ~UnsupportedMode(ret)
         /\ Len(ret.calls) >= 2
         /\ ret.calls[1] = [fn |-> "message"]
         /\ ret.calls[2] =
              [fn |-> "reduce", own_data |-> call.target,
               source_message |->
                 message(call.structure, call.source, call.target)]
         /\ \A c \in 3..Len(ret.calls) : ret.calls[c].fn = "layer"

C20_Witness ==
  /\ Aggregated /\ Mode = "constant"
  /\ ~call.self.has_scatter
  /\ ret.ok
  /\ NumTargets = 2
  /\ ret.calls[2].fn = "reduce"

SecondBatch == IF call.data2 = None THEN call.data1 ELSE call.data2

\* C15: for each distance-matrix function and batches a (n rows) and b (m
\* rows) of one feature width, the matrix of (a, b) is n x m and is the
\* transpose of the matrix of (b, a); with b omitted the matrix is that of
\* (a, a), which is symmetric.
C15_TransposeSymmetry ==
  (call.op = "distance_matrix" /\ ret # NoReturn
     /\ call.data1.shape[2] = SecondBatch.shape[2]) =>
    LET swapped == distance_matrix(call.func, SecondBatch, call.data1)
    IN /\ ret.ok
       /\ ret.out.shape = <<call.data1.shape[1], SecondBatch.shape[1]>>
       /\ ret.out = transpose(swapped.out, 0, 1)
       /\ call.data2 = None =>
            /\ ret.out = distance_matrix(call.func, call.data1, call.data1).out
            /\ ret.out = transpose(ret.out, 0, 1)

C15_Witness ==
  /\ call.op = "distance_matrix" /\ ret # NoReturn /\ ret.ok
  /\ call.func = "multi_rbf_distance_matrix"
  /\ call.data1.shape[1] = 1 /\ call.data2 # None /\ call.data2.shape[1] = 2
  /\ ret.out.shape = <<1, 2>>
  /\ ret.out.data[1] # ret.out.data[2]

====
